---- MODULE Spec2Model ----
(***************************************************************************)
(* A model of machineInfo.go: the command-line dispatcher (main), the four *)
(* OS queries (GetHostName, GetSysInfo, GetCPUInfo, GetNetworkInterface)   *)
(* and the five printing reporters.  One run of the program is one         *)
(* behaviour: the command line is read by flag.Parse, every OS query draws *)
(* its answer (a value or an error) when it is made, and stdout grows by   *)
(* the lines each Printf writes.                                           *)
(***************************************************************************)
EXTENDS Integers, Sequences, FiniteSets

VARIABLES pc, argc, hn, OS, cpu, netw, sys_obj, stdout, calls, exitCode

vars == <<pc, argc, hn, OS, cpu, netw, sys_obj, stdout, calls, exitCode>>

(***************************************************************************)
(* Program constants.                                                      *)
(***************************************************************************)
SYSINFO_LOADS_SCALE == 65536

SYSINFO_MEM_UNIT == 1048576

\* runtime.GOOS and runtime.GOARCH are fixed when the program is built; the
\* use of syscall.Sysinfo makes the build a linux one.
GOOS == "linux"

GOARCH == "amd64"

\* Exit status of a Go process that ends in an unrecovered panic, and of
\* flag.Parse (flag.ExitOnError) on a malformed command line.
EXIT_FAILURE == 2

\* exitCode while the process is still running.
RUNNING == -1

\* Width of sys_t.Procs / Sysinfo_t.Procs (uint16).
PROCS_BITS == 16

(***************************************************************************)
(* Bounds of the model.                                                    *)
(***************************************************************************)
\* Most command-line arguments after the program name.
MaxArgs == 4

\* Most CPU records one cpu.Info() call returns.
MaxCPUs == 2

\* Most interfaces one net.Interfaces() call returns.
MaxIfaces == 2

\* Raw sysinfo fields range over 0 .. (MaxMB+1)*SYSINFO_MEM_UNIT - 1.
MaxMB == 1

(***************************************************************************)
(* Small helpers.                                                          *)
(***************************************************************************)
Pow2(n) == 2 ^ n

\* A line written to stdout: the fixed label of its format string and the
\* values substituted for its verbs (strings and numbers kept apart).
Line(label, strs, nums) == [label |-> label, strs |-> strs, nums |-> nums]

\* The journal entry of one reporter call: which reporter, how it ended
\* ("ok", "query error", "index out of range") and what the OS answered.
Call(name, outcome, res) == [call |-> name, outcome |-> outcome, res |-> res]

(***************************************************************************)
(* The command line and flag.Parse.                                        *)
(***************************************************************************)
FlagNames == {"hostname", "os", "cpu", "network"}

Tokens == {"-hostname", "-os", "-cpu", "-network", "-cpu=false", "file", "-bogus"}

\* os.Args[1:]: every sequence of at most MaxArgs tokens.
CommandLines == UNION {[1..n -> Tokens] : n \in 0..MaxArgs}

IsFlagToken(t) == t # "file"

TokName(t) ==
    CASE t = "-hostname" -> "hostname"
      [] t = "-os" -> "os"
      [] t = "-cpu" -> "cpu"
      [] t = "-cpu=false" -> "cpu"
      [] t = "-network" -> "network"
      [] OTHER -> "bogus"

TokValue(t) == t # "-cpu=false"

\* The four flag.Bool definitions: every flag defaults to false.
DefaultFlags == [f \in FlagNames |-> FALSE]

\* FlagSet.Parse: arguments are consumed left to right; the first non-flag
\* argument ends flag parsing; a flag that is not defined is an error; a
\* boolean flag is set to true, or to the value after "=".
RECURSIVE ParseFrom(_, _, _)
ParseFrom(argv, i, flags) ==
    IF i > Len(argv) THEN [ok |-> TRUE, flags |-> flags]
    ELSE IF ~IsFlagToken(argv[i]) THEN [ok |-> TRUE, flags |-> flags]
    ELSE IF TokName(argv[i]) \notin FlagNames THEN [ok |-> FALSE, flags |-> flags]
    ELSE ParseFrom(argv, i + 1, [flags EXCEPT ![TokName(argv[i])] = TokValue(argv[i])])

FlagParse(argv) == ParseFrom(argv, 1, DefaultFlags)

(***************************************************************************)
(* What the OS can answer.                                                 *)
(***************************************************************************)
HostNames == {"alpha", "beta"}

\* net.Interface values, in interface-index order.
Iface(i) == [Index |-> i, MTU |-> IF i = 1 THEN 65536 ELSE 1500,
             Name |-> IF i = 1 THEN "lo" ELSE "eth"]

IfaceLists == {[i \in 1..n |-> Iface(i)] : n \in 0..MaxIfaces}

\* cpu.InfoStat values, in logical-CPU order.  All logical CPUs sit in one
\* package: they differ in CPU and CoreID only.
CpuStat(i) ==
    [CPU |-> i, VendorID |-> "GenuineIntel", Family |-> "6", Model |-> "85",
     Stepping |-> 4, PhysicalID |-> "0", CoreID |-> IF i % 2 = 0 THEN "0" ELSE "1",
     Cores |-> 1, ModelName |-> "Xeon", Mhz |-> 2500, CacheSize |-> 1024,
     Flags |-> <<"fpu", "sse">>, Microcode |-> "0x1"]

CpuLists == {[i \in 1..n |-> CpuStat(i - 1)] : n \in 0..MaxCPUs}

\* Raw values of a sysinfo field: for each megabyte count up to MaxMB, the
\* exact multiple and the last byte before the next one.
RawVals == {k * SYSINFO_MEM_UNIT + r : k \in 0..MaxMB, r \in {0, SYSINFO_MEM_UNIT - 1}}

SysFields == {"Uptime", "Loads0", "Loads1", "Loads2", "Totalram", "Freeram",
              "Sharedram", "Bufferram", "Totalswap", "Freeswap", "Procs",
              "Totalhigh", "Freehigh"}

\* The syscall.Sysinfo_t in which field f holds v and every other field b.
\* Procs is a uint16 and at least one process (this one) is running.
RawSysinfo(f, v, b) ==
    LET x(g) == IF g = f THEN v ELSE b
    IN  [Uptime |-> x("Uptime"),
         Loads |-> <<x("Loads0"), x("Loads1"), x("Loads2")>>,
         Totalram |-> x("Totalram"), Freeram |-> x("Freeram"),
         Sharedram |-> x("Sharedram"), Bufferram |-> x("Bufferram"),
         Totalswap |-> x("Totalswap"), Freeswap |-> x("Freeswap"),
         Procs |-> (x("Procs") % (Pow2(PROCS_BITS) - 1)) + 1,
         Totalhigh |-> x("Totalhigh"), Freehigh |-> x("Freehigh")]

\* The records the sysinfo call can fill in: all fields equal, or one field
\* standing out from a background of zeroes.
RawSysinfos ==
    {RawSysinfo("Uptime", v, v) : v \in RawVals}
    \cup {RawSysinfo(f, v, 0) : f \in SysFields, v \in RawVals}

(***************************************************************************)
(* The queries.  An answer is an error or a value; a Get function returns  *)
(* the value of an answer without error and panics on one with error.      *)
(***************************************************************************)
Failure == [err |-> TRUE, val |-> <<>>]

Answers(values) == {Failure} \cup {[err |-> FALSE, val |-> v] : v \in values}

GetHostName(ans) == ans.val

GetOSName == <<GOOS, GOARCH>>

\* A float64 load average, kept exactly: num / den.
Ratio(num, den) == [num |-> num, den |-> den]

\* sys_t{}: the snapshot before the sysinfo call has filled it in.
ZeroSys ==
    [UpTime |-> 0, Loads |-> <<Ratio(0, 1), Ratio(0, 1), Ratio(0, 1)>>,
     TotalRam |-> 0, FreeRam |-> 0, SharedRam |-> 0, BufferRam |-> 0,
     TotalSwap |-> 0, FreeSwap |-> 0, Procs |-> 0, TotalHigh |-> 0, FreeHigh |-> 0]

\* A faulty GetSysInfo: decimal megabytes (10^6 bytes) instead of 2^20.
GetSysInfo_DecimalMB(sys_ref) ==
    LET unit == 1000 * 1000
    IN  [UpTime |-> sys_ref.Uptime,
         Loads |-> <<Ratio(sys_ref.Loads[1], SYSINFO_LOADS_SCALE),
                     Ratio(sys_ref.Loads[2], SYSINFO_LOADS_SCALE),
                     Ratio(sys_ref.Loads[3], SYSINFO_LOADS_SCALE)>>,
         TotalRam |-> sys_ref.Totalram \div unit,
         FreeRam |-> sys_ref.Freeram \div unit,
         SharedRam |-> sys_ref.Sharedram \div unit,
         BufferRam |-> sys_ref.Bufferram \div unit,
         TotalSwap |-> sys_ref.Totalswap \div unit,
         FreeSwap |-> sys_ref.Freeswap \div unit,
         Procs |-> sys_ref.Procs,
         TotalHigh |-> sys_ref.Totalhigh \div unit,
         FreeHigh |-> sys_ref.Freehigh \div unit]

GetSysInfo(sys_ref) ==
    [UpTime |-> sys_ref.Uptime,
     Loads |-> <<Ratio(sys_ref.Loads[1], SYSINFO_LOADS_SCALE),
                 Ratio(sys_ref.Loads[2], SYSINFO_LOADS_SCALE),
                 Ratio(sys_ref.Loads[3], SYSINFO_LOADS_SCALE)>>,
     TotalRam |-> sys_ref.Totalram \div SYSINFO_MEM_UNIT,
     FreeRam |-> sys_ref.Freeram \div SYSINFO_MEM_UNIT,
     SharedRam |-> sys_ref.Sharedram \div SYSINFO_MEM_UNIT,
     BufferRam |-> sys_ref.Bufferram \div SYSINFO_MEM_UNIT,
     TotalSwap |-> sys_ref.Totalswap \div SYSINFO_MEM_UNIT,
     FreeSwap |-> sys_ref.Freeswap \div SYSINFO_MEM_UNIT,
     Procs |-> sys_ref.Procs,
     TotalHigh |-> sys_ref.Totalhigh \div SYSINFO_MEM_UNIT,
     FreeHigh |-> sys_ref.Freehigh \div SYSINFO_MEM_UNIT]

GetCPUInfo(ans) == ans.val

GetNetworkInterface(ans) == ans.val

(***************************************************************************)
(* Formatting.                                                             *)
(***************************************************************************)
\* %2.2f: the value in hundredths, rounded to nearest, ties to even.
Fmt2f(q) ==
    LET n == q.num * 100
        w == n \div q.den
        r == n % q.den
    IN  IF 2 * r > q.den \/ (2 * r = q.den /\ w % 2 = 1) THEN w + 1 ELSE w

SysInfoLines(snap) ==
    << Line("sys uptime", <<>>, <<snap.UpTime>>),
       Line("sys load avg", <<>>, <<Fmt2f(snap.Loads[1]), Fmt2f(snap.Loads[2]),
                                    Fmt2f(snap.Loads[3])>>),
       Line("sys totalRam", <<>>, <<snap.TotalRam>>),
       Line("sys freeRam", <<>>, <<snap.TotalRam>>),
       Line("sys sharedRam", <<>>, <<snap.SharedRam>>),
       Line("sys bufferRam", <<>>, <<snap.BufferRam>>),
       Line("sys totalSwap", <<>>, <<snap.TotalSwap>>),
       Line("sys freeSwap", <<>>, <<snap.FreeSwap>>),
       Line("sys totalHigh", <<>>, <<snap.TotalHigh>>),
       Line("sys freeHigh", <<>>, <<snap.FreeHigh>>),
       Line("sys procs", <<>>, <<snap.Procs>>) >>

\* The thirteen lines of one CPU record.
CpuBlock(c) ==
    << Line("cpuID", <<>>, <<c.CPU>>),
       Line("--vendorID", <<c.VendorID>>, <<>>),
       Line("--family", <<c.Family>>, <<>>),
       Line("--model", <<c.Model>>, <<>>),
       Line("--stepping", <<>>, <<c.Stepping>>),
       Line("--physicalID", <<c.PhysicalID>>, <<>>),
       Line("--coreID", <<c.CoreID>>, <<>>),
       Line("--cores", <<>>, <<c.Cores>>),
       Line("--modelName", <<c.ModelName>>, <<>>),
       Line("--MHz", <<>>, <<c.Mhz>>),
       Line("--facheSize", <<>>, <<c.CacheSize>>),
       Line("--flags", c.Flags, <<>>),
       Line("--Microcode", <<c.Microcode>>, <<>>) >>

\* for i := from; i < len(cpu_info); i++ (the model's sequences start at 1).
RECURSIVE CpuLinesFrom(_, _)
CpuLinesFrom(cpu_info, i) ==
    IF i > Len(cpu_info) THEN <<>>
    ELSE CpuBlock(cpu_info[i]) \o CpuLinesFrom(cpu_info, i + 1)

\* A faulty PrintCPUInfo loop: it starts at the second record, as the loop
\* of PrintNetworkInterface does.
CpuInfoLines_FromSecond(cpu_info) == CpuLinesFrom(cpu_info, 2)

CpuInfoLines(cpu_info) == CpuLinesFrom(cpu_info, 1)

\* %v of a net.Interface: its fields (index, MTU, name).
IfaceLine(label, ifc) == Line(label, <<ifc.Name>>, <<ifc.Index, ifc.MTU>>)

RECURSIVE IfaceLinesFrom(_, _)
IfaceLinesFrom(ifaces, i) ==
    IF i > Len(ifaces) THEN <<>>
    ELSE <<IfaceLine("", ifaces[i])>> \o IfaceLinesFrom(ifaces, i + 1)

\* ifaces[0] on the "interfaces" line, then ifaces[1:] one per line.
NetworkInterfaceLines(ifaces) ==
    <<IfaceLine("interfaces", ifaces[1])>> \o IfaceLinesFrom(ifaces, 2)

(***************************************************************************)
(* How a reporter call ends.                                               *)
(***************************************************************************)
\* An unrecovered panic: nothing more is printed, the process exits 2.
Panic(name, outcome, res) ==
    /\ pc' = "panic"
    /\ exitCode' = EXIT_FAILURE
    /\ calls' = Append(calls, Call(name, outcome, res))
    /\ UNCHANGED <<argc, hn, OS, cpu, netw, sys_obj, stdout>>

\* The reporter printed `lines` and returned; main goes on at `ret`.
Emit(ret, name, res, lines) ==
    /\ pc' = ret
    /\ exitCode' = IF ret = "done" THEN 0 ELSE exitCode
    /\ stdout' = stdout \o lines
    /\ calls' = Append(calls, Call(name, "ok", res))
    /\ UNCHANGED <<argc, hn, OS, cpu, netw>>

Return(ret, name, res, lines) ==
    /\ Emit(ret, name, res, lines)
    /\ UNCHANGED sys_obj

\* A statement of main that calls nothing.
Skip(ret) ==
    /\ pc' = ret
    /\ exitCode' = IF ret = "done" THEN 0 ELSE exitCode
    /\ UNCHANGED <<argc, hn, OS, cpu, netw, sys_obj, stdout, calls>>

(***************************************************************************)
(* The reporters.                                                          *)
(***************************************************************************)
\* A faulty PrintHostName: a failed query is answered with a fallback name
\* and the program goes on.
PrintHostName_Fallback(ret) ==
    \E ans \in Answers(HostNames) :
        /\ pc' = ret
        /\ exitCode' = IF ret = "done" THEN 0 ELSE exitCode
        /\ stdout' = Append(stdout, Line("hostname",
                        <<IF ans.err THEN "localhost" ELSE ans.val>>, <<>>))
        /\ calls' = Append(calls, Call("PrintHostName",
                        IF ans.err THEN "query error" ELSE "ok", ans.val))
        /\ UNCHANGED <<argc, hn, OS, cpu, netw, sys_obj>>

PrintHostName(ret) ==
    \E ans \in Answers(HostNames) :
        IF ans.err THEN Panic("PrintHostName", "query error", <<>>)
        ELSE Return(ret, "PrintHostName", ans.val,
                    <<Line("hostname", <<GetHostName(ans)>>, <<>>)>>)

PrintOSName(ret) ==
    Return(ret, "PrintOSName", <<>>,
           <<Line("OS name", <<GOOS>>, <<>>), Line("OS arch", <<GOARCH>>, <<>>)>>)

PrintSysInfo(ret) ==
    \E ans \in Answers(RawSysinfos) :
        IF ans.err THEN Panic("PrintSysInfo", "query error", <<>>)
        ELSE /\ sys_obj' = GetSysInfo(ans.val)
             /\ Emit(ret, "PrintSysInfo", ans.val, SysInfoLines(sys_obj'))

PrintCPUInfo(ret) ==
    \E ans \in Answers(CpuLists) :
        IF ans.err THEN Panic("PrintCPUInfo", "query error", <<>>)
        ELSE Return(ret, "PrintCPUInfo", ans.val, CpuInfoLines(GetCPUInfo(ans)))

PrintNetworkInterface(ret) ==
    \E ans \in Answers(IfaceLists) :
        IF ans.err THEN Panic("PrintNetworkInterface", "query error", <<>>)
        ELSE IF Len(GetNetworkInterface(ans)) = 0
             THEN Panic("PrintNetworkInterface", "index out of range", ans.val)
        ELSE Return(ret, "PrintNetworkInterface", ans.val,
                    NetworkInterfaceLines(GetNetworkInterface(ans)))

(***************************************************************************)
(* main, statement by statement (pc names the line about to run).          *)
(***************************************************************************)
Init ==
    /\ pc = "L166"
    /\ argc \in 1..(MaxArgs + 1)
    /\ hn = FALSE
    /\ OS = FALSE
    /\ cpu = FALSE
    /\ netw = FALSE
    /\ sys_obj = ZeroSys
    /\ stdout = <<>>
    /\ calls = <<>>
    /\ exitCode = RUNNING

\* flag.Parse() on the command line the process was started with.
Parse ==
    /\ pc = "L166"
    /\ \E argv \in CommandLines :
         /\ Len(argv) + 1 = argc
         /\ LET p == FlagParse(argv)
            IN  /\ hn' = p.flags["hostname"]
                /\ OS' = p.flags["os"]
                /\ cpu' = p.flags["cpu"]
                /\ netw' = p.flags["network"]
                /\ pc' = IF p.ok THEN "L167" ELSE "exit"
                /\ exitCode' = IF p.ok THEN exitCode ELSE EXIT_FAILURE
    /\ UNCHANGED <<argc, sys_obj, stdout, calls>>

\* A faulty branch: run-all is chosen when no flag is set, whatever the
\* number of arguments.
PrintArgc_ByFlags ==
    /\ pc = "L167"
    /\ stdout' = Append(stdout, Line("", <<>>, <<argc>>))
    /\ pc' = IF ~hn /\ ~OS /\ ~cpu /\ ~netw THEN "L169" ELSE "L177"
    /\ UNCHANGED <<argc, hn, OS, cpu, netw, sys_obj, calls, exitCode>>

\* fmt.Println(len(os.Args)); if len(os.Args) == 1 { ... }
PrintArgc ==
    /\ pc = "L167"
    /\ stdout' = Append(stdout, Line("", <<>>, <<argc>>))
    /\ pc' = IF argc = 1 THEN "L169" ELSE "L177"
    /\ UNCHANGED <<argc, hn, OS, cpu, netw, sys_obj, calls, exitCode>>

AllHostName == pc = "L169" /\ PrintHostName("L170")

\* A faulty run-all branch: the OS-name report is left out.
AllNetwork_SkipOSName == pc = "L170" /\ PrintNetworkInterface("L172")

AllNetwork == pc = "L170" /\ PrintNetworkInterface("L171")

AllOSName == pc = "L171" /\ PrintOSName("L172")

AllSysInfo == pc = "L172" /\ PrintSysInfo("L173")

AllCPUInfo == pc = "L173" /\ PrintCPUInfo("done")

FlagHn == pc = "L177" /\ IF hn THEN PrintHostName("L178") ELSE Skip("L178")

\* A faulty os flag: system stats only, without the CPU report.
FlagOSSys_NoCpu == pc = "L178" /\ IF OS THEN PrintSysInfo("L179") ELSE Skip("L179")

FlagOSSys == pc = "L178" /\ IF OS THEN PrintSysInfo("L178cpu") ELSE Skip("L179")

FlagOSCpu == pc = "L178cpu" /\ PrintCPUInfo("L179")

\* A faulty cpu flag: the CPU report is printed whether or not it is set.
FlagCpu_Always == pc = "L179" /\ PrintCPUInfo("L180")

FlagCpu == pc = "L179" /\ IF cpu THEN PrintCPUInfo("L180") ELSE Skip("L180")

FlagNetw == pc = "L180" /\ IF netw THEN PrintNetworkInterface("done") ELSE Skip("done")

Next ==
    \/ Parse
    \/ PrintArgc
    \/ AllHostName
    \/ AllNetwork
    \/ AllOSName
    \/ AllSysInfo
    \/ AllCPUInfo
    \/ FlagHn
    \/ FlagOSSys
    \/ FlagOSCpu
    \/ FlagCpu
    \/ FlagNetw

Spec == Init /\ [][Next]_vars

(***************************************************************************)
(* Reading a run: the reporters called, and the sections of stdout.        *)
(***************************************************************************)
CallNames == [i \in 1..Len(calls) |-> calls[i].call]

IsPrefix(s, t) == Len(s) <= Len(t) /\ \A i \in 1..Len(s) : s[i] = t[i]

CpuLabels == <<"cpuID", "--vendorID", "--family", "--model", "--stepping",
               "--physicalID", "--coreID", "--cores", "--modelName", "--MHz",
               "--facheSize", "--flags", "--Microcode">>

SysLabels == <<"sys uptime", "sys load avg", "sys totalRam", "sys freeRam",
               "sys sharedRam", "sys bufferRam", "sys totalSwap", "sys freeSwap",
               "sys totalHigh", "sys freeHigh", "sys procs">>

Range(s) == {s[i] : i \in 1..Len(s)}

\* The report section a line of stdout belongs to ("none": the argument
\* count, which belongs to no report).
SectionOf(l) ==
    CASE l.label = "hostname" -> "hostname"
      [] l.label = "interfaces" -> "network"
      [] l.label = "" /\ l.strs # <<>> -> "network"
      [] l.label \in {"OS name", "OS arch"} -> "osname"
      [] \E j \in 1..Len(SysLabels) : l.label = SysLabels[j] -> "sysstats"
      [] \E j \in 1..Len(CpuLabels) : l.label = CpuLabels[j] -> "cpu"
      [] OTHER -> "none"

\* The sections of stdout in the order they appear, a run of lines of one
\* section counted once.
RECURSIVE SectionsFrom(_, _)
SectionsFrom(i, prev) ==
    IF i > Len(stdout) THEN <<>>
    ELSE LET sec == SectionOf(stdout[i])
         IN  IF sec = "none" \/ sec = prev THEN SectionsFrom(i + 1, prev)
             ELSE <<sec>> \o SectionsFrom(i + 1, sec)

Sections == SectionsFrom(1, "none")

LinesLabelled(label) == SelectSeq(stdout, LAMBDA l : l.label = label)

\* How often a section was started: each report begins with a line that
\* occurs nowhere else in it.
HostnameReports == Len(LinesLabelled("hostname"))

SysReports == Len(LinesLabelled("sys uptime"))

NetworkReports == Len(LinesLabelled("interfaces"))

CpuReports == Len(SelectSeq(stdout, LAMBDA l : l.label = "cpuID" /\ l.nums = <<0>>))

OkCalls(name) == {i \in 1..Len(calls) : calls[i].call = name /\ calls[i].outcome = "ok"}

\* The CPU records of all successful cpu queries, in call order.
RECURSIVE CpuRecordsFrom(_)
CpuRecordsFrom(i) ==
    IF i > Len(calls) THEN <<>>
    ELSE (IF calls[i].call = "PrintCPUInfo" /\ calls[i].outcome = "ok"
          THEN calls[i].res ELSE <<>>) \o CpuRecordsFrom(i + 1)

CpuRecords == CpuRecordsFrom(1)

NoFlag == ~hn /\ ~OS /\ ~cpu /\ ~netw

AllBranch == {"L169", "L170", "L171", "L172", "L173"}

FlagBranch == {"L177", "L178", "L178cpu", "L179", "L180"}

\* The order in which main calls the reporters in the run-all branch.
AllOrder == <<"PrintHostName", "PrintNetworkInterface", "PrintOSName",
              "PrintSysInfo", "PrintCPUInfo">>

\* The order the flag-driven branch is documented to follow.
FlagOrder ==
    (IF hn THEN <<"PrintHostName">> ELSE <<>>)
    \o (IF OS THEN <<"PrintSysInfo", "PrintCPUInfo">> ELSE <<>>)
    \o (IF cpu THEN <<"PrintCPUInfo">> ELSE <<>>)
    \o (IF netw THEN <<"PrintNetworkInterface">> ELSE <<>>)

(***************************************************************************)
(* The claims.                                                             *)
(***************************************************************************)

\* C1: invoked with no arguments, the program calls the five reporters in
\* the order hostname, network, OS name, system stats, CPU; when all of them
\* return, stdout holds their sections in that order, each once (the CPU
\* section is the blocks of the records the query returned), the process
\* exits 0, and the flag-driven statements are never reached.
C1_NoArgsRunsAllInOrder ==
    argc = 1 =>
        /\ pc \notin FlagBranch
        /\ IsPrefix(CallNames, AllOrder)
        /\ pc = "done" =>
              /\ CallNames = AllOrder
              /\ \A i \in 1..Len(calls) : calls[i].outcome = "ok"
              /\ Sections = <<"hostname", "network", "osname", "sysstats">>
                            \o (IF CpuRecords # <<>> THEN <<"cpu">> ELSE <<>>)
              /\ exitCode = 0

C1_Witness ==
    /\ argc = 1
    /\ pc = "done"
    /\ Sections = <<"hostname", "network", "osname", "sysstats", "cpu">>

\* C2: invoked with the hostname flag alone and the hostname query
\* succeeding, stdout is exactly the hostname line.
C2_HostnameOnlyExactOutput ==
    (pc = "done" /\ hn /\ ~OS /\ ~cpu /\ ~netw) =>
        /\ Len(stdout) = 1
        /\ stdout[1].label = "hostname"

\* C3: with at least one argument, the reporters called are those the flags
\* select, in the order hostname, os (system stats then CPU), cpu, network:
\* at every moment the calls made are a prefix of that order, and a run
\* that completes has made all of them (so os gives both the system-stats
\* and the CPU section) and no other.
C3_FlagOrder ==
    (argc > 1 /\ pc # "L166") =>
        /\ IsPrefix(CallNames, FlagOrder)
        /\ pc = "done" =>
              /\ CallNames = FlagOrder
              /\ OS => (SysReports = 1 /\ Cardinality(OkCalls("PrintCPUInfo")) >= 1)
              /\ ~hn => HostnameReports = 0
              /\ ~OS => SysReports = 0
              /\ (~OS /\ ~cpu) => "cpu" \notin Range(Sections)
              /\ ~netw => NetworkReports = 0

C3_Witness ==
    /\ pc = "done"
    /\ hn /\ OS /\ cpu /\ netw
    /\ Sections = <<"hostname", "sysstats", "cpu", "network">>

\* C4: a network query that succeeds with no interface does not crash the
\* network reporter.
C4_EmptyInterfacesNoCrash ==
    \A i \in 1..Len(calls) :
        (calls[i].call = "PrintNetworkInterface" /\ calls[i].outcome # "query error"
            /\ Len(calls[i].res) = 0)
        => (calls[i].outcome = "ok" /\ pc # "panic")

\* C5: a reporter whose OS query fails prints nothing, the process ends
\* there with a non-zero exit status, what was printed before stays, and
\* nothing runs afterwards.
C5_QueryFailureIsFatal ==
    [][ /\ ( /\ Len(calls') > Len(calls)
             /\ calls'[Len(calls')].outcome = "query error" )
           => ( /\ stdout' = stdout
                /\ pc' = "panic"
                /\ exitCode' # 0
                /\ exitCode' # RUNNING )
        /\ pc = "panic" => UNCHANGED vars
      ]_vars

C5_Witness ==
    /\ pc = "panic"
    /\ Len(calls) > 1
    /\ calls[Len(calls)].outcome = "query error"
    /\ Len(stdout) > 1

\* Floor of raw / SYSINFO_MEM_UNIT, said without division.
IsMegabytes(mb, raw) ==
    /\ mb >= 0
    /\ mb <= raw
    /\ mb * SYSINFO_MEM_UNIT <= raw
    /\ raw < (mb + 1) * SYSINFO_MEM_UNIT

\* C6: each memory field of the snapshot GetSysInfo returns is the whole
\* number of megabytes in the same field of the raw record; uptime and
\* process count are the raw values.
C6_SysInfoMegabytes ==
    \A i \in OkCalls("PrintSysInfo") :
        LET raw == calls[i].res
        IN  /\ IsMegabytes(sys_obj.TotalRam, raw.Totalram)
            /\ IsMegabytes(sys_obj.FreeRam, raw.Freeram)
            /\ IsMegabytes(sys_obj.SharedRam, raw.Sharedram)
            /\ IsMegabytes(sys_obj.BufferRam, raw.Bufferram)
            /\ IsMegabytes(sys_obj.TotalSwap, raw.Totalswap)
            /\ IsMegabytes(sys_obj.FreeSwap, raw.Freeswap)
            /\ IsMegabytes(sys_obj.TotalHigh, raw.Totalhigh)
            /\ IsMegabytes(sys_obj.FreeHigh, raw.Freehigh)
            /\ sys_obj.UpTime = raw.Uptime
            /\ sys_obj.Procs = raw.Procs

C6_Witness ==
    \E i \in OkCalls("PrintSysInfo") :
        /\ calls[i].res.Freeram >= SYSINFO_MEM_UNIT
        /\ calls[i].res.Freeram % SYSINFO_MEM_UNIT # 0
        /\ calls[i].res.Totalram = 0
        /\ sys_obj.FreeRam = 1

\* The lines of stdout that belong to CPU blocks.
CpuLines == SelectSeq(stdout, LAMBDA l : SectionOf(l) = "cpu")

\* C7: stdout holds one block per CPU record returned, in the order
\* returned: as many blocks as records, the k-th block carrying the k-th
\* record's id and core id, its lines labelled in the fixed order.
C7_OneBlockPerCpuRecord ==
    LET n == Len(CpuLabels)
        printed == CpuLines
        returned == CpuRecords
    IN  /\ Len(printed) = n * Len(returned)
        /\ Len(LinesLabelled("cpuID")) = Len(returned)
        /\ \A k \in 1..Len(returned) :
              /\ \A j \in 1..n : printed[n * (k - 1) + j].label = CpuLabels[j]
              /\ printed[n * (k - 1) + 1].nums = <<returned[k].CPU>>
              /\ printed[n * (k - 1) + 7].strs = <<returned[k].CoreID>>

C7_Witness ==
    /\ \E i \in OkCalls("PrintCPUInfo") : Len(calls[i].res) = MaxCPUs
    /\ \E i \in OkCalls("PrintCPUInfo") : Len(calls[i].res) = 0
    /\ Len(LinesLabelled("cpuID")) = MaxCPUs

\* C8: every line of the system-stats report shows the snapshot field its
\* label names; the "sys freeRam" line shows FreeRam.
C8_SysLinesShowTheirField ==
    \A i \in OkCalls("PrintSysInfo") :
        /\ LinesLabelled("sys totalRam")[1].nums = <<sys_obj.TotalRam>>
        /\ LinesLabelled("sys freeRam")[1].nums = <<sys_obj.FreeRam>>
        /\ LinesLabelled("sys sharedRam")[1].nums = <<sys_obj.SharedRam>>
        /\ LinesLabelled("sys bufferRam")[1].nums = <<sys_obj.BufferRam>>
        /\ LinesLabelled("sys totalSwap")[1].nums = <<sys_obj.TotalSwap>>
        /\ LinesLabelled("sys freeSwap")[1].nums = <<sys_obj.FreeSwap>>
        /\ LinesLabelled("sys totalHigh")[1].nums = <<sys_obj.TotalHigh>>
        /\ LinesLabelled("sys freeHigh")[1].nums = <<sys_obj.FreeHigh>>
        /\ LinesLabelled("sys uptime")[1].nums = <<sys_obj.UpTime>>
        /\ LinesLabelled("sys procs")[1].nums = <<sys_obj.Procs>>

\* C9: the branch main takes depends on the argument count alone; with at
\* least one argument and no flag set, no reporter is called, stdout holds
\* no report section, and the process runs to a normal exit.
C9_ArgsButNoFlagRunsNothing ==
    /\ pc \in AllBranch => argc = 1
    /\ pc \in FlagBranch => argc > 1
    /\ (argc > 1 /\ NoFlag /\ pc \notin {"L166", "exit"}) =>
          /\ calls = <<>>
          /\ Sections = <<>>
          /\ pc # "panic"
          /\ pc # "done" => ENABLED Next
          /\ pc = "done" => exitCode = 0

C9_Witness ==
    /\ argc > 1
    /\ NoFlag
    /\ pc = "done"
    /\ exitCode = 0
    /\ Len(stdout) = 1

\* C10 as stated: no report section is printed more than once.
C10_EachSectionAtMostOnce ==
    /\ HostnameReports <= 1
    /\ SysReports <= 1
    /\ CpuReports <= 1
    /\ NetworkReports <= 1

\* C10 as amended: the hostname, system-stats and network sections are
\* printed at most once; the CPU section is printed at most twice, and
\* twice only when os and cpu are both set.
C10_AtMostOnceExceptCpu ==
    /\ HostnameReports <= 1
    /\ SysReports <= 1
    /\ NetworkReports <= 1
    /\ CpuReports <= 2
    /\ Cardinality(OkCalls("PrintCPUInfo")) <= 2
    /\ (CpuReports = 2 \/ Cardinality(OkCalls("PrintCPUInfo")) = 2) => (OS /\ cpu)

C10_Witness ==
    /\ OS /\ cpu
    /\ CpuReports = 2
    /\ pc = "done"

====
